---- MODULE Spec2Model ----
(***************************************************************************)
(* Model of the useIndexedDB hook and its module-level connection cache    *)
(* (src/src/hooks/use-debounce.ts, lines 113-253).                         *)
(*                                                                         *)
(* The JavaScript event loop is single-threaded: the synchronous part of a *)
(* handler and the microtasks it queues run to completion before the next  *)
(* event is delivered.  One action of the model is therefore one task: a   *)
(* call of the hook's API (with the continuations that run in the same     *)
(* turn because the awaited promise is already settled), the settling of   *)
(* an open request (with the continuations of every operation awaiting     *)
(* it, in the order they subscribed), or the completion of one object      *)
(* store request (with the continuation of the operation awaiting it).     *)
(***************************************************************************)
EXTENDS Naturals, Sequences, FiniteSets, TLC

\* ---------------------------------------------------------------- bounds
\* Operations (mount loads included) the hook instances may issue in all.
MaxOps == 4

\* ---------------------------------------------------------------- inputs
Instances  == {1, 2}
DBNames    == {"demo-app"}
StoreNames == {"memos", "notes"}
Keys       == {"current-memo"}
Versions   == {1, 2}
Values     == {"v1", "v2"}

\* JavaScript's null and undefined are different values.
Null      == "null"
Undefined == "undefined"
\* Marker of a key without a record in an object store.
NoRecord  == "<no record>"

\* Errors raised by the browser's database (all are instances of Error).
OpenError     == "OpenError"
VersionError  == "VersionError"
NotFoundError == "NotFoundError"
ReadError     == "ReadError"
WriteError    == "WriteError"
\* new Error('IndexedDB는 브라우저 환경에서만 사용 가능합니다.')
UnavailableError == "UnavailableError"
\* The fallback errors built when the thrown value is not an Error.
FetchFallbackError  == "FetchFallbackError"
SaveFallbackError   == "SaveFallbackError"
RemoveFallbackError == "RemoveFallbackError"
ErrorInstances == {OpenError, VersionError, NotFoundError, ReadError, WriteError,
                   UnavailableError, FetchFallbackError, SaveFallbackError,
                   RemoveFallbackError}

Options == [dbName : DBNames, storeName : StoreNames, key : Keys, version : Versions]

VARIABLES
    window,     \* TRUE iff typeof window !== 'undefined'
    opts,       \* opts[i]: the options of hook instance i
    mounted,    \* mounted[i]: the mount effect of instance i has run
    data,       \* data[i]: the data state of instance i
    isLoading,  \* isLoading[i]
    error,      \* error[i]: Null or an error
    ops,        \* ops[i]: the operations instance i has issued, in order
    dbCache,    \* cache key -> index into opens (0: no entry)
    opens,      \* the underlying openDB calls, in the order they were made
    idb,        \* the browser's databases: version, object stores, records
    reqs,       \* object store requests not yet completed, in creation order
    torn,       \* torn[i]: the component of instance i has been unmounted
    boot        \* the page load: whether it is a reload, the calls issued before
                \* it, and the databases as it found them

\* The other modules of the template: the API client, the UI store and the
\* local storage hook.
VARIABLES
    authToken,  \* ApiClient.authToken
    apiCall,    \* the last request made through the API client and its outcome
    uiState,    \* the state of useUIStore
    localStorage, \* window.localStorage: key -> item, for the keys that have one
    storedValue,  \* storedValue[h]: the state of useLocalStorage instance h as rendered
    pending,      \* pending[h]: the state updates queued on h since its last render
    listening,    \* listening[h]: the effects of instance h have run
    viewport,     \* the width of the viewport, in px
    matches,      \* matches[b]: the state of the useMediaQuery of breakpoint b
    mqMounted,    \* the effects of useBreakpoints have run
    exData,       \* useExampleList: data
    exLoading,    \* useExampleList: isLoading
    exError,      \* useExampleList: error
    lastParams,   \* useExampleList: lastParams
    exCalls,      \* the fetch and refresh calls made on the hook, in order
    deValue,      \* useDebounce: the value argument of the last render
    deDelay,      \* useDebounce: the delay argument of the last render
    debouncedValue, \* useDebounce: debouncedValue
    deTimers,     \* the timers set and neither fired nor cleared
    deAge,        \* time since the value or the delay last changed
    deChanges,    \* how many times the value or the delay has changed
    deEmitted     \* the values passed to setDebouncedValue, in order

apiVars == <<authToken, apiCall>>
lsVars == <<storedValue, pending, listening>>
bpVars == <<viewport, matches, mqMounted>>

\* The hooks of single components.
exVars == <<exData, exLoading, exError, lastParams, exCalls>>
deVars == <<deValue, deDelay, debouncedValue, deTimers, deAge, deChanges, deEmitted>>
views == <<bpVars, exVars, deVars>>

apps == <<apiVars, uiState, localStorage, lsVars, views>>

\* The variables of the IndexedDB hook a call, open or request changes.
hookVars == <<window, opts, mounted, data, isLoading, error, ops, dbCache, opens, idb, reqs>>

\* The variables no call, open or request changes.
life == <<torn, boot, apps>>

vars == <<window, opts, mounted, data, isLoading, error, ops, dbCache, opens, idb, reqs,
          torn, boot, authToken, apiCall, uiState, localStorage, storedValue, pending,
          listening, viewport, matches, mqMounted, exData, exLoading, exError,
          lastParams, exCalls, deValue, deDelay, debouncedValue, deTimers, deAge,
          deChanges, deEmitted>>

\* ------------------------------------------------------------ connection cache
\* const cacheKey = `${dbName}-${version}`: the version is a positive integer,
\* so its decimal digits hold no '-' and the string determines the pair.
CacheKey(dbName, version) == <<dbName, version>>
CacheKeys == {CacheKey(d, v) : d \in DBNames, v \in Versions}

\* A cache that counts an entry only once its open has resolved (it would hold
\* connections instead of promises).
CacheHasSettledOnly(cache, opensSeq, ck) ==
    cache[ck] # 0 /\ opensSeq[cache[ck]].state # "pending"

\* A cache that drops the entry of a failed open and opens again.
CacheHasUnlessRejected(cache, opensSeq, ck) ==
    cache[ck] # 0 /\ opensSeq[cache[ck]].state # "rejected"

\* dbCache.has(cacheKey)
CacheHas(cache, opensSeq, ck) == cache[ck] # 0

\* getDB: the cache and the open calls after the call, and the promise returned.
GetDB(cache, opensSeq, dbName, storeName, version) ==
    LET ck == CacheKey(dbName, version) IN
    IF CacheHas(cache, opensSeq, ck)
    THEN [cache |-> cache, opens |-> opensSeq, conn |-> cache[ck]]
    ELSE LET n == Len(opensSeq) + 1 IN
         [cache |-> [cache EXCEPT ![ck] = n],
          opens |-> Append(opensSeq, [dbName |-> dbName, version |-> version,
                                      storeName |-> storeName, state |-> "pending",
                                      err |-> Null, waiters |-> <<>>]),
          conn  |-> n]

\* ------------------------------------------------------------ hook state
\* A catch block that wraps every error in a new one with the fallback text.
ToErrorAlwaysNew(err, fallback) == fallback

\* err instanceof Error ? err : new Error(fallback)
ToError(err, fallback) == IF err \in ErrorInstances THEN err ELSE fallback

IsFetch(kind) == kind \in {"load", "refresh"}

\* The hook-side state a continuation reads and writes, as one record.
HookState == [ops |-> ops, data |-> data, isLoading |-> isLoading,
              error |-> error, reqs |-> reqs]

\* A catch block that settles the operation without setError.
CatchUnrecorded(H, i, j, err) ==
    LET kind == H.ops[i][j].kind
        e == ToError(err, IF IsFetch(kind) THEN FetchFallbackError
                          ELSE IF kind = "save" THEN SaveFallbackError
                          ELSE RemoveFallbackError)
    IN IF IsFetch(kind)
       THEN [H EXCEPT !.isLoading[i] = FALSE,
                      !.ops[i][j].pc = "fulfilled",
                      !.ops[i][j].caught = e]
       ELSE [H EXCEPT !.ops[i][j].pc = "rejected",
                      !.ops[i][j].caught = e,
                      !.ops[i][j].thrown = e]

\* The catch (and finally) block of operation j of instance i, entered with err:
\* fetchData records the error and returns, save and remove record and re-throw.
Catch(H, i, j, err) ==
    LET kind == H.ops[i][j].kind IN
    IF IsFetch(kind)
    THEN [H EXCEPT !.error[i] = ToError(err, FetchFallbackError),
                   !.isLoading[i] = FALSE,
                   !.ops[i][j].pc = "fulfilled",
                   !.ops[i][j].caught = ToError(err, FetchFallbackError)]
    ELSE LET e == ToError(err, IF kind = "save" THEN SaveFallbackError
                                                ELSE RemoveFallbackError) IN
         [H EXCEPT !.error[i] = e,
                   !.ops[i][j].pc = "rejected",
                   !.ops[i][j].caught = e,
                   !.ops[i][j].thrown = e]

RequestKind(kind) == IF IsFetch(kind) THEN "get" ELSE IF kind = "save" THEN "put" ELSE "delete"

\* The code after `await getDB(...)` of operation j of instance i, up to its
\* next await: o is the settled open, stores the object stores of its database.
AfterGetDB(H, i, j, o, stores) ==
    IF o.state = "rejected" THEN Catch(H, i, j, o.err)
    ELSE IF opts[i].storeName \notin stores THEN Catch(H, i, j, NotFoundError)
    ELSE [H EXCEPT !.ops[i][j].pc = "awaitReq",
                   !.reqs = Append(@, [inst |-> i, op |-> j,
                                       kind |-> RequestKind(H.ops[i][j].kind),
                                       dbName |-> opts[i].dbName,
                                       storeName |-> opts[i].storeName,
                                       key |-> opts[i].key,
                                       value |-> H.ops[i][j].value])]

\* ------------------------------------------------------------ the browser's database
\* The value db.get resolves with: undefined when the key has no record.
GetResult(d, storeName, key) ==
    IF d.records[storeName][key] = NoRecord THEN Undefined ELSE d.records[storeName][key]

\* The open at index n may be processed: the open requests of one database are
\* processed in the order they were made, and an upgrade waits until every
\* connection to an older version is closed (the code never closes one).
OpenReady(n) ==
    LET o == opens[n] IN
    /\ o.state = "pending"
    /\ \A m \in 1..(n - 1) : opens[m].dbName = o.dbName => opens[m].state # "pending"
    /\ o.version > idb[o.dbName].version =>
           \A m \in 1..Len(opens) :
               ~(opens[m].dbName = o.dbName /\ opens[m].state = "open")

\* An upgrade that starts the new version with an empty database.
UpgradeFresh(d, storeName, version) ==
    [version |-> version, stores |-> {storeName},
     records |-> [s \in StoreNames |-> [k \in Keys |-> NoRecord]]]

\* The upgrade callback of getDB: create the object store when it is missing.
Upgrade(d, storeName, version) ==
    [d EXCEPT !.version = version,
              !.stores = IF storeName \in @ THEN @ ELSE @ \cup {storeName}]

\* ------------------------------------------------------------ starting an operation
\* An operation: pc is where it stands ("awaitDB", "awaitReq") or how the promise
\* it returned settled ("fulfilled", "rejected"); caught is the error its catch
\* block received, thrown the error it rejected with.
NewOp(kind, value, conn, pc, thrown) ==
    [kind |-> kind, value |-> value, conn |-> conn, pc |-> pc,
     caught |-> Null, thrown |-> thrown]

\* fetchData up to `await getDB`: setIsLoading(true); setError(null).
FetchBegin(H, i) == [H EXCEPT !.isLoading[i] = TRUE, !.error[i] = Null]

\* A save that shows its value before the write has succeeded.
WriteBeginOptimistic(H, i, kind, value) ==
    [H EXCEPT !.error[i] = Null,
              !.data[i] = IF kind = "save" THEN value ELSE @]

\* A save or remove that raises the loading flag as fetchData does.
WriteBeginLoading(H, i, kind, value) ==
    [H EXCEPT !.error[i] = Null, !.isLoading[i] = TRUE]

\* A save or remove that starts without setError(null).
WriteBeginKeepsError(H, i, kind, value) == H

\* save and remove up to `await getDB`: setError(null).
WriteBegin(H, i, kind, value) == [H EXCEPT !.error[i] = Null]

\* fetchData without a window: setIsLoading(false); return.
FetchNoWindow(H, i, kind) ==
    [H EXCEPT !.isLoading[i] = FALSE,
              !.ops[i] = Append(@, NewOp(kind, Null, 0, "fulfilled", Null))]

\* A save or remove that returns silently without a window, as fetchData does.
WriteNoWindowSilent(H, i, kind, value) ==
    [H EXCEPT !.ops[i] = Append(@, NewOp(kind, value, 0, "fulfilled", Null))]

\* save and remove without a window: throw before the try block.
WriteNoWindow(H, i, kind, value) ==
    [H EXCEPT !.ops[i] = Append(@, NewOp(kind, value, 0, "rejected", UnavailableError))]

\* The hook state after the call of an operation and the continuations that
\* run in the same turn; g is the result of its getDB call.
Begin(H, i, kind, value, g) ==
    LET j  == Len(H.ops[i]) + 1
        H1 == IF IsFetch(kind) THEN FetchBegin(H, i) ELSE WriteBegin(H, i, kind, value)
        H2 == [H1 EXCEPT !.ops[i] = Append(@, NewOp(kind, value, g.conn, "awaitDB", Null))]
        o  == g.opens[g.conn]
    IN IF o.state = "pending" THEN H2
       ELSE AfterGetDB(H2, i, j, o, idb[o.dbName].stores)

\* A state setter that also reaches an unmounted component.
KeepIfTornNever(old, new) == new

\* setData / setIsLoading / setError: React drops the update of a component that
\* has been unmounted, so its state stays as the unmount left it.
KeepIfTorn(old, new) == [i \in Instances |-> IF torn[i] THEN old[i] ELSE new[i]]

SetHook(H) ==
    /\ ops' = H.ops
    /\ data' = KeepIfTorn(data, H.data)
    /\ isLoading' = KeepIfTorn(isLoading, H.isLoading)
    /\ error' = KeepIfTorn(error, H.error)
    /\ reqs' = H.reqs

RECURSIVE SumLen(_, _)
SumLen(f, S) == IF S = {} THEN 0
                ELSE LET x == CHOOSE y \in S : TRUE IN Len(f[x]) + SumLen(f, S \ {x})
OpsIssued == boot.spent + SumLen(ops, Instances)

\* One call of fetchData, save or remove on instance i.
Call(i, kind, value) ==
    /\ OpsIssued < MaxOps
    /\ IF window
       THEN LET g == GetDB(dbCache, opens, opts[i].dbName, opts[i].storeName,
                           opts[i].version)
                j == Len(ops[i]) + 1
            IN /\ SetHook(Begin(HookState, i, kind, value, g))
               /\ dbCache' = g.cache
               /\ opens' = IF g.opens[g.conn].state = "pending"
                           THEN [g.opens EXCEPT ![g.conn].waiters = Append(@, <<i, j>>)]
                           ELSE g.opens
       ELSE /\ SetHook(IF IsFetch(kind) THEN FetchNoWindow(HookState, i, kind)
                                        ELSE WriteNoWindow(HookState, i, kind, value))
            /\ UNCHANGED <<dbCache, opens>>
    /\ UNCHANGED <<window, opts, idb>>
    /\ UNCHANGED life

\* useEffect(() => { fetchData(); }, [fetchData]) on mount.
Mount(i) ==
    /\ ~mounted[i] /\ ~torn[i]
    /\ mounted' = [mounted EXCEPT ![i] = TRUE]
    /\ Call(i, "load", Null)

\* The handlers of a component are called while it is mounted.
Refresh(i) ==
    /\ mounted[i] /\ ~torn[i]
    /\ Call(i, "refresh", Null)
    /\ UNCHANGED mounted

Save(i, v) ==
    /\ mounted[i] /\ ~torn[i]
    /\ Call(i, "save", v)
    /\ UNCHANGED mounted

Remove(i) ==
    /\ mounted[i] /\ ~torn[i]
    /\ Call(i, "remove", Null)
    /\ UNCHANGED mounted

\* ------------------------------------------------------------ an open settles
RECURSIVE ResumeAll(_, _, _, _)
\* The continuations of the operations awaiting open o, in subscription order.
ResumeAll(H, waiters, o, stores) ==
    IF waiters = <<>> THEN H
    ELSE ResumeAll(AfterGetDB(H, Head(waiters)[1], Head(waiters)[2], o, stores),
                   Tail(waiters), o, stores)

\* The open at index n settles: ok = FALSE is a failure of the open itself.
OpenSettle(n, ok) ==
    /\ n \in 1..Len(opens)
    /\ OpenReady(n)
    /\ LET o == opens[n]
           d == idb[o.dbName]
           err == IF ~ok THEN OpenError
                  ELSE IF o.version < d.version THEN VersionError ELSE Null
           d2 == IF err = Null /\ o.version > d.version
                 THEN Upgrade(d, o.storeName, o.version) ELSE d
           o2 == [o EXCEPT !.state = IF err = Null THEN "open" ELSE "rejected",
                           !.err = err, !.waiters = <<>>]
       IN /\ opens' = [opens EXCEPT ![n] = o2]
          /\ idb' = [idb EXCEPT ![o.dbName] = d2]
          /\ SetHook(ResumeAll(HookState, o.waiters, o2, d2.stores))
    /\ UNCHANGED <<window, opts, mounted, dbCache>>
    /\ UNCHANGED life

\* ------------------------------------------------------------ a request completes
\* fetchData after `await db.get`: setData(value); finally setIsLoading(false).
OnGet(H, i, j, value) ==
    [H EXCEPT !.data[i] = value, !.isLoading[i] = FALSE, !.ops[i][j].pc = "fulfilled"]

\* A save that succeeds without setData(value).
OnPutKeepsData(H, i, j, value) == [H EXCEPT !.ops[i][j].pc = "fulfilled"]

\* save after `await db.put`: setData(value).
OnPut(H, i, j, value) ==
    [H EXCEPT !.data[i] = value, !.ops[i][j].pc = "fulfilled"]

\* A remove whose success clears the data of every instance.
OnDeleteShared(H, i, j) ==
    [H EXCEPT !.data = [k \in Instances |-> Null], !.ops[i][j].pc = "fulfilled"]

\* remove after `await db.delete`: setData(null).
OnDelete(H, i, j) ==
    [H EXCEPT !.data[i] = Null, !.ops[i][j].pc = "fulfilled"]

RemoveAt(s, r) == [k \in 1..(Len(s) - 1) |-> IF k < r THEN s[k] ELSE s[k + 1]]

\* The transactions of one object store run in the order they were created.
ReqReady(r) ==
    \A q \in 1..(r - 1) :
        ~(reqs[q].dbName = reqs[r].dbName /\ reqs[q].storeName = reqs[r].storeName)

\* A put that keeps the record a key already has (add instead of put).
WrittenKeepFirst(d, storeName, key, value) ==
    IF value # NoRecord /\ d.records[storeName][key] # NoRecord THEN d
    ELSE [d EXCEPT !.records[storeName][key] = value]

\* The record an object store holds under key after a put or a delete.
Written(d, storeName, key, value) == [d EXCEPT !.records[storeName][key] = value]

\* Request r completes: ok = FALSE is an I/O failure of the request.
ReqComplete(r, ok) ==
    /\ r \in 1..Len(reqs)
    /\ ReqReady(r)
    /\ LET q == reqs[r]
           d == idb[q.dbName]
           H == [HookState EXCEPT !.reqs = RemoveAt(reqs, r)]
       IN IF ~ok
          THEN /\ SetHook(Catch(H, q.inst, q.op,
                                IF q.kind = "get" THEN ReadError ELSE WriteError))
               /\ UNCHANGED idb
          ELSE IF q.kind = "get"
          THEN /\ SetHook(OnGet(H, q.inst, q.op, GetResult(d, q.storeName, q.key)))
               /\ UNCHANGED idb
          ELSE IF q.kind = "put"
          THEN /\ SetHook(OnPut(H, q.inst, q.op, q.value))
               /\ idb' = [idb EXCEPT ![q.dbName] = Written(d, q.storeName, q.key, q.value)]
          ELSE /\ SetHook(OnDelete(H, q.inst, q.op))
               /\ idb' = [idb EXCEPT ![q.dbName] = Written(d, q.storeName, q.key, NoRecord)]
    /\ UNCHANGED <<window, opts, mounted, dbCache, opens>>
    /\ UNCHANGED life

\* ------------------------------------------------------------ API client
\* The requests of src/lib/api/client.ts.  A response is a status, a status
\* text and a body; a body is text that is not JSON, the JSON null, or a JSON
\* object with or without a message.
Methods == {"GET", "POST"}
Tokens == {"token"}
Statuses == {200, 204, 304, 400, 401, 403, 404, 500, 503}
StatusTexts == {"", "status-text"}
BodyMessages == {Undefined, "", "server-message"}

JsonNull == [kind |-> "null", message |-> Undefined]
JsonValues == {JsonNull} \cup {[kind |-> "object", message |-> m] : m \in BodyMessages}
Bodies == JsonValues \cup {[kind |-> "text", message |-> Undefined]}
Responses == [status : Statuses, statusText : StatusTexts, body : Bodies]

\* The fixed messages of parseErrorResponse and createApiError.
UnknownErrorMessage == "unknown-error"
UnparsableMessage == "cannot-parse-response"
Message401 == "login-required"
Message403 == "no-permission"
Message404 == "resource-not-found"
Message500 == "server-error"

NoData == [kind |-> "none", message |-> Undefined]
NoResponse == [status |-> 0, statusText |-> "", body |-> NoData]
NotThrown == [name |-> "none", status |-> 0, message |-> ""]

\* Response.ok
Ok(response) == response.status >= 200 /\ response.status <= 299

\* response.json() throws on a body that is not JSON.
JsonThrows(response) == response.body.kind = "text"

\* `errorJson.message || fallback`: undefined and '' are falsy.
Falsy(m) == m \in {Undefined, ""}

\* A parseErrorResponse that falls back to the status text whenever the body
\* gives no message.
ParseErrorResponseStatusText(response) ==
    IF response.body.kind = "object" /\ ~Falsy(response.body.message)
    THEN response.body.message
    ELSE response.statusText

\* parseErrorResponse: the message of the JSON body or the fixed message; when
\* response.json() throws, or the body is null (reading .message of null
\* throws), the status text or the other fixed message.
ParseErrorResponse(response) ==
    IF JsonThrows(response) \/ response.body.kind = "null"
    THEN IF response.statusText # "" THEN response.statusText ELSE UnparsableMessage
    ELSE IF ~Falsy(response.body.message) THEN response.body.message
    ELSE UnknownErrorMessage

\* createApiError
CreateApiError(status, message) ==
    [name |-> "ApiError",
     status |-> status,
     message |-> CASE status = 401 -> Message401
                   [] status = 403 -> Message403
                   [] status = 404 -> Message404
                   [] status = 500 -> Message500
                   [] OTHER -> message]

\* responseInterceptor, and `return result.data` of request.
ResponseInterceptor(call, response) ==
    IF ~Ok(response)
    THEN [call EXCEPT !.pc = "thrown", !.response = response,
                      !.thrown = CreateApiError(response.status,
                                                ParseErrorResponse(response))]
    ELSE IF response.status = 204
    THEN [call EXCEPT !.pc = "returned", !.response = response, !.data = JsonNull]
    ELSE IF JsonThrows(response)
    THEN [call EXCEPT !.pc = "thrown", !.response = response,
                      !.thrown = [name |-> "SyntaxError", status |-> 0, message |-> ""]]
    ELSE [call EXCEPT !.pc = "returned", !.response = response, !.data = response.body]

\* getHeaders: the Authorization header of a request.
Authorization(token) == IF token # Null THEN <<"Bearer", token>> ELSE <<>>

IdleCall ==
    [pc |-> "idle", method |-> "GET", authorization |-> <<>>,
     response |-> NoResponse, data |-> NoData, thrown |-> NotThrown]

SetAuthToken(token) ==
    /\ authToken' = token
    /\ UNCHANGED <<apiCall, hookVars, views, torn, boot, uiState, localStorage, lsVars>>

\* get/post: request() up to `await fetch`.
Request(method) ==
    /\ apiCall.pc # "fetching"
    /\ apiCall' = [IdleCall EXCEPT !.pc = "fetching", !.method = method,
                                   !.authorization = Authorization(authToken)]
    /\ UNCHANGED <<authToken, hookVars, views, torn, boot, uiState, localStorage, lsVars>>

\* fetch resolves with a response: the rest of request().
FetchResolve(response) ==
    /\ apiCall.pc = "fetching"
    /\ apiCall' = ResponseInterceptor(apiCall, response)
    /\ UNCHANGED <<authToken, hookVars, views, torn, boot, uiState, localStorage, lsVars>>

\* fetch rejects (no connection): request() throws what fetch threw.
FetchReject ==
    /\ apiCall.pc = "fetching"
    /\ apiCall' = [apiCall EXCEPT !.pc = "thrown",
                                  !.thrown = [name |-> "TypeError", status |-> 0,
                                              message |-> ""]]
    /\ UNCHANGED <<authToken, hookVars, views, torn, boot, uiState, localStorage, lsVars>>

InitApi ==
    /\ authToken = Null
    /\ apiCall = IdleCall

NextApi ==
    \/ \E token \in Tokens \cup {Null} : SetAuthToken(token)
    \/ \E method \in Methods : Request(method)
    \/ \E response \in Responses : FetchResolve(response)
    \/ FetchReject

\* ------------------------------------------------------------ UI store
\* useUIStore of src/lib/store/ui-store.ts: a zustand store under the persist
\* middleware.  modalData is modelled by the set of its field names.
Themes == {"light", "dark", "system"}
ModalIds == {"modal-a", "modal-b"}
ModalDatas == {{}, {"field"}}
LoadingMessages == {Undefined, "", "custom-message"}
DefaultLoadingMessage == "loading"

initialState ==
    [sidebarOpen |-> TRUE, sidebarCollapsed |-> FALSE, theme |-> "system",
     activeModal |-> Null, modalData |-> {}, isLoading |-> FALSE, loadingMessage |-> ""]

\* The `name` option of persist: the local storage key.
UiKey == "ui-store"

\* A partialize that selects every field of the state.
PartializeAll(state) == state

\* The `partialize` option of persist.
Partialize(state) == [theme |-> state.theme, sidebarCollapsed |-> state.sidebarCollapsed]

\* Storage.setItem and Storage.removeItem on the items a storage holds.
SetItem(storage, key, item) ==
    [k \in DOMAIN storage \cup {key} |-> IF k = key THEN item ELSE storage[k]]

RemoveItem(storage, key) == [k \in DOMAIN storage \ {key} |-> storage[k]]

\* The item persist writes for a state (the JSON document, parsed).
Persisted(state) == [state |-> Partialize(state), version |-> 0]

\* The shallow merge of persist's rehydration: {...current, ...persisted}.
Merge(current, persistedState) ==
    [f \in DOMAIN current \cup DOMAIN persistedState |->
        IF f \in DOMAIN persistedState THEN persistedState[f] ELSE current[f]]

\* `set` under persist: the new state is set and the item is written.
UiSet(state) ==
    /\ uiState' = state
    /\ localStorage' = SetItem(localStorage, UiKey, Persisted(state))
    /\ UNCHANGED <<hookVars, views, torn, boot, apiVars, lsVars>>

openSidebar == UiSet([uiState EXCEPT !.sidebarOpen = TRUE])
closeSidebar == UiSet([uiState EXCEPT !.sidebarOpen = FALSE])
toggleSidebar == UiSet([uiState EXCEPT !.sidebarOpen = ~uiState.sidebarOpen])
toggleSidebarCollapse ==
    UiSet([uiState EXCEPT !.sidebarCollapsed = ~uiState.sidebarCollapsed])
setTheme(theme) == UiSet([uiState EXCEPT !.theme = theme])

\* isDark: window.matchMedia('(prefers-color-scheme: dark)').matches
toggleTheme(isDark) ==
    IF uiState.theme = "system"
    THEN UiSet([uiState EXCEPT !.theme = IF isDark THEN "light" ELSE "dark"])
    ELSE UiSet([uiState EXCEPT !.theme = IF uiState.theme = "dark" THEN "light" ELSE "dark"])

openModal(modalId, modalData) ==
    UiSet([uiState EXCEPT !.activeModal = modalId, !.modalData = modalData])
\* A closeModal that leaves the data of the closed modal in the store.
closeModalKeepsData == UiSet([uiState EXCEPT !.activeModal = Null])

closeModal == UiSet([uiState EXCEPT !.activeModal = Null, !.modalData = {}])
startLoading(message) ==
    UiSet([uiState EXCEPT !.isLoading = TRUE,
                          !.loadingMessage = IF message = Undefined
                                             THEN DefaultLoadingMessage ELSE message])
stopLoading == UiSet([uiState EXCEPT !.isLoading = FALSE, !.loadingMessage = ""])
reset == UiSet(Merge(uiState, initialState))

\* The page is loaded again: the store is created with initialState and persist
\* rehydrates it from the item, if there is one.  Whether the rehydration writes
\* the item back depends on the version of the middleware.
UiRestart(writeBack) ==
    /\ ~boot.reloaded
    /\ LET state == IF UiKey \in DOMAIN localStorage
                    THEN Merge(initialState, localStorage[UiKey].state)
                    ELSE initialState
       IN /\ uiState' = state
          /\ localStorage' = IF writeBack
                             THEN SetItem(localStorage, UiKey, Persisted(state))
                             ELSE localStorage
    /\ boot' = [boot EXCEPT !.reloaded = TRUE]
    /\ UNCHANGED <<hookVars, views, torn, apiVars, lsVars>>

InitUi ==
    /\ uiState = initialState
    /\ localStorage = [k \in {} |-> ""]

NextUi ==
    \/ openSidebar
    \/ closeSidebar
    \/ toggleSidebar
    \/ toggleSidebarCollapse
    \/ \E theme \in Themes : setTheme(theme)
    \/ \E isDark \in BOOLEAN : toggleTheme(isDark)
    \/ \E modalId \in ModalIds, modalData \in ModalDatas : openModal(modalId, modalData)
    \/ closeModal
    \/ \E message \in LoadingMessages : startLoading(message)
    \/ stopLoading
    \/ reset
    \/ \E writeBack \in BOOLEAN : UiRestart(writeBack)

\* ------------------------------------------------------------ local storage hook
\* useLocalStorage of src/hooks/use-local-storage.ts, for instances that share
\* one key and hold a number.  storedValue[h] is the state as of the last render
\* of h, which is also the storedValue the setValue of that render closes over;
\* pending[h] holds the setStoredValue calls made since, which the next render
\* applies.
LsHooks == {1, 2}
LsKey == "count"
LsInitialValue == 0

\* The largest number stored, and the most updates queued between two renders.
LsMaxValue == 3
LsMaxUpdates == 2

LsValues == 0..LsMaxValue

\* The updater functions passed to setValue: c => c + 1 and c => c * 2.
Updaters == {"increment", "double"}
Apply(f, x) == IF f = "increment" THEN x + 1 ELSE 2 * x

\* JSON.stringify of a number, and JSON.parse of an item (the item is not JSON
\* when no number is written that way).
Stringify(v) == ToString(v)
IsJson(item) == \E v \in LsValues : Stringify(v) = item
Parse(item) == CHOOSE v \in LsValues : Stringify(v) = item

\* readValue
ReadValue ==
    IF ~window THEN LsInitialValue
    ELSE IF LsKey \in DOMAIN localStorage /\ localStorage[LsKey] # ""
    THEN IF IsJson(localStorage[LsKey]) THEN Parse(localStorage[LsKey]) ELSE LsInitialValue
    ELSE LsInitialValue

\* setStoredValue(value), queued on instance h; arg is the argument of the
\* setValue call it comes from, "value" when that was not a function.
Queue(q, h, arg, value) ==
    [q EXCEPT ![h] = Append(q[h], [arg |-> arg, value |-> value])]

\* handleStorageChange in every instance whose listener is registered.
DispatchStorage(q, hs, newValue) ==
    [k \in LsHooks |->
        IF k \in hs /\ IsJson(newValue)
        THEN Append(q[k], [arg |-> "value", value |-> Parse(newValue)])
        ELSE q[k]]

Room(hs) == \A k \in hs : Len(pending[k]) < LsMaxUpdates

\* The two effects of the first render: the value is read from the storage and
\* the storage listener is registered.
LsMount(h) ==
    /\ ~listening[h]
    /\ Room({h})
    /\ pending' = Queue(pending, h, "value", ReadValue)
    /\ listening' = [listening EXCEPT ![h] = TRUE]
    /\ UNCHANGED <<storedValue, localStorage, hookVars, views, torn, boot, apiVars, uiState>>

\* setValue(arg) with valueToStore computed: the state update, the item and the
\* storage event, which the instance's own listener receives as well (it sets
\* the parsed value once more).  When setItem throws (ok is false: the quota is
\* exceeded, or the storage may not be accessed) the catch block is entered
\* after the state update, before the event.
LsStore(h, arg, valueToStore, ok) ==
    /\ listening[h]
    /\ valueToStore \in LsValues
    /\ Room({k \in LsHooks : listening[k]})
    /\ ~ok => window
    /\ IF window /\ ok
       THEN /\ localStorage' = SetItem(localStorage, LsKey, Stringify(valueToStore))
            /\ pending' = DispatchStorage(
                              Queue(pending, h, arg, Parse(Stringify(valueToStore))),
                              {k \in LsHooks \ {h} : listening[k]},
                              Stringify(valueToStore))
       ELSE /\ pending' = Queue(pending, h, arg, valueToStore)
            /\ UNCHANGED localStorage
    /\ UNCHANGED <<storedValue, listening, hookVars, views, torn, boot, apiVars, uiState>>

\* setValue(value)
LsSetValue(h, value) == LsStore(h, "value", value, TRUE)
LsSetValueFails(h, value) == LsStore(h, "value", value, FALSE)

\* setValue(f): `value(storedValue)` with the storedValue of the last render.
LsSetValueWith(h, f) == LsStore(h, f, Apply(f, storedValue[h]), TRUE)
LsSetValueWithFails(h, f) == LsStore(h, f, Apply(f, storedValue[h]), FALSE)

\* removeValue; when removeItem throws (ok is false) the catch block is entered
\* after the state update.
LsRemove(h, ok) ==
    /\ listening[h]
    /\ Room({h})
    /\ ~ok => window
    /\ pending' = Queue(pending, h, "value", LsInitialValue)
    /\ localStorage' = IF window /\ ok THEN RemoveItem(localStorage, LsKey) ELSE localStorage
    /\ UNCHANGED <<storedValue, listening, hookVars, views, torn, boot, apiVars, uiState>>

LsRemoveValue(h) == LsRemove(h, TRUE)
LsRemoveValueFails(h) == LsRemove(h, FALSE)

\* The items another tab writes under the key: a number, and text that is not
\* JSON.
OtherTabItems == {"2", "{oops"}

\* Another tab sets the item: the browser delivers the storage event to this
\* window, where handleStorageChange of every registered instance sets the
\* parsed value and ignores an item it cannot parse.
OtherTabWrite(item) ==
    /\ window
    /\ Room({k \in LsHooks : listening[k]})
    /\ ~(LsKey \in DOMAIN localStorage /\ localStorage[LsKey] = item)
    /\ localStorage' = SetItem(localStorage, LsKey, item)
    /\ pending' = DispatchStorage(pending, {k \in LsHooks : listening[k]}, item)
    /\ UNCHANGED <<storedValue, listening, hookVars, views, torn, boot, apiVars, uiState>>

\* React renders instance h again: the queued updates are applied in order, and
\* the last value set is the state.
LsRender(h) ==
    /\ pending[h] # <<>>
    /\ storedValue' = [storedValue EXCEPT ![h] = pending[h][Len(pending[h])].value]
    /\ pending' = [pending EXCEPT ![h] = <<>>]
    /\ UNCHANGED <<listening, localStorage, hookVars, views, torn, boot, apiVars, uiState>>

InitLs ==
    /\ storedValue = [h \in LsHooks |-> LsInitialValue]
    /\ pending = [h \in LsHooks |-> <<>>]
    /\ listening = [h \in LsHooks |-> FALSE]

NextLs ==
    \/ \E h \in LsHooks : LsMount(h)
    \/ \E h \in LsHooks, value \in LsValues : LsSetValue(h, value)
    \/ \E h \in LsHooks, f \in Updaters : LsSetValueWith(h, f)
    \/ \E h \in LsHooks : LsRemoveValue(h)
    \/ \E h \in LsHooks : LsRender(h)

\* The hook where storage writes may fail and another tab shares the storage.
NextLsFaulty ==
    \/ NextLs
    \/ \E h \in LsHooks, value \in LsValues : LsSetValueFails(h, value)
    \/ \E h \in LsHooks, f \in Updaters : LsSetValueWithFails(h, f)
    \/ \E h \in LsHooks : LsRemoveValueFails(h)
    \/ \E item \in OtherTabItems : OtherTabWrite(item)

\* ------------------------------------------------------------ breakpoints
\* useMediaQuery and useBreakpoints of src/hooks/use-local-storage.ts.
BREAKPOINTS == [SM |-> 640, MD |-> 768, LG |-> 1024, XL |-> 1280, XXL |-> 1536]
BreakpointNames == DOMAIN BREAKPOINTS

\* Viewport widths on both sides of every breakpoint.
Widths == {320, 639, 640, 700, 767, 768, 1023, 1024, 1279, 1280, 1535, 1536}

\* window.matchMedia(`(min-width: ${BREAKPOINTS[b]}px)`).matches at width w
MatchMedia(b, w) == w >= BREAKPOINTS[b]

\* The effects of the five useMediaQuery calls: setMatches(mediaQuery.matches)
\* and the change listener.
BpMount ==
    /\ window
    /\ ~mqMounted
    /\ mqMounted' = TRUE
    /\ matches' = [b \in BreakpointNames |-> MatchMedia(b, viewport)]
    /\ UNCHANGED <<viewport, exVars, deVars, hookVars, torn, boot, apiVars, uiState, localStorage, lsVars>>

\* The viewport is resized.
Resize(w) ==
    /\ w # viewport
    /\ viewport' = w
    /\ UNCHANGED <<matches, mqMounted, exVars, deVars, hookVars, torn, boot, apiVars, uiState,
                   localStorage, lsVars>>

\* handleChange of breakpoint b: the change event of a media query whose result
\* is no longer the state.
MediaChange(b) ==
    /\ mqMounted
    /\ matches[b] # MatchMedia(b, viewport)
    /\ matches' = [matches EXCEPT ![b] = MatchMedia(b, viewport)]
    /\ UNCHANGED <<viewport, mqMounted, exVars, deVars, hookVars, torn, boot, apiVars, uiState,
                   localStorage, lsVars>>

\* What useBreakpoints returns.
isMobile == ~matches.MD
isTablet == matches.MD /\ ~matches.LG
isDesktop == matches.LG

InitBp ==
    /\ viewport = BREAKPOINTS.LG
    /\ matches = [b \in BreakpointNames |-> FALSE]
    /\ mqMounted = FALSE

NextBp ==
    \/ BpMount
    \/ \E w \in Widths : Resize(w)
    \/ \E b \in BreakpointNames : MediaChange(b)

\* ------------------------------------------------------------ example list
\* useExampleList of src/features/example/hooks/index.ts.  A query stands for
\* the pagination params and the filter of a call; the list exampleApi.getList
\* resolves with is identified by the call it answers.
ExMaxCalls == 3
Queries == {"default", "page-1", "page-2"}

\* `{ params: {}, filter: {} }`, also the default arguments of fetch.
DefaultQuery == "default"

NoList == [call |-> 0, query |-> "none"]
ListError == "list-error"

\* fetch(params, filter) up to `await exampleApi.getList`.
ExCall(kind, query) ==
    /\ Len(exCalls) < ExMaxCalls
    /\ exCalls' = Append(exCalls, [kind |-> kind, query |-> query, pc |-> "pending"])
    /\ exLoading' = TRUE
    /\ exError' = Null
    /\ UNCHANGED <<exData, lastParams, bpVars, deVars, hookVars, torn,
                   boot, apiVars, uiState,
                   localStorage, lsVars>>

ExFetch(query) == ExCall("fetch", query)

\* refresh: fetch(lastParams.params, lastParams.filter)
ExRefresh == ExCall("refresh", lastParams)

\* getList of call n resolves: setData, setLastParams, and the finally block.
ExResolve(n) ==
    /\ n \in DOMAIN exCalls
    /\ exCalls[n].pc = "pending"
    /\ exCalls' = [exCalls EXCEPT ![n].pc = "fulfilled"]
    /\ exData' = [call |-> n, query |-> exCalls[n].query]
    /\ lastParams' = exCalls[n].query
    /\ exLoading' = FALSE
    /\ UNCHANGED <<exError, bpVars, deVars, hookVars, torn,
                   boot, apiVars, uiState,
                   localStorage, lsVars>>

\* getList of call n rejects: setError, and the finally block.
ExReject(n) ==
    /\ n \in DOMAIN exCalls
    /\ exCalls[n].pc = "pending"
    /\ exCalls' = [exCalls EXCEPT ![n].pc = "failed"]
    /\ exError' = ListError
    /\ exLoading' = FALSE
    /\ UNCHANGED <<exData, lastParams, bpVars, deVars, hookVars, torn,
                   boot, apiVars, uiState,
                   localStorage, lsVars>>

InitEx ==
    /\ exData = NoList
    /\ exLoading = FALSE
    /\ exError = Null
    /\ lastParams = DefaultQuery
    /\ exCalls = <<>>

NextEx ==
    \/ \E query \in Queries : ExFetch(query)
    \/ ExRefresh
    \/ \E n \in 1..ExMaxCalls : ExResolve(n)
    \/ \E n \in 1..ExMaxCalls : ExReject(n)

\* ------------------------------------------------------------ debounce
\* useDebounce of src/hooks/use-debounce.ts, in a component that renders it
\* with changing values and delays.  Time passes in units; a delay is a number
\* of units.
DeMaxChanges == 3
DeMaxDelay == 2
DeValues == {"a", "b", "c"}
Delays == 1..DeMaxDelay

\* setTimeout(() => { setDebouncedValue(value); }, delay)
SetTimeout(timers, value, delay) == timers \cup {[value |-> value, left |-> delay]}

\* A cleanup that leaves the timer of the previous effect running.
ClearTimeoutNever(timers, effect) == timers

\* The cleanup of the previous effect: clearTimeout(timer).
ClearTimeout(timers, effect) == timers \ effect

\* The component renders with another value or delay: the dependencies of the
\* effect have changed, so the cleanup of the previous effect runs and the
\* effect sets its timer.
DeChange(value, delay) ==
    /\ deChanges < DeMaxChanges
    /\ <<value, delay>> # <<deValue, deDelay>>
    /\ deValue' = value
    /\ deDelay' = delay
    /\ deTimers' = SetTimeout(ClearTimeout(deTimers, deTimers), value, delay)
    /\ deAge' = 0
    /\ deChanges' = deChanges + 1
    /\ UNCHANGED <<debouncedValue, deEmitted, bpVars, exVars, hookVars, torn, boot, apiVars,
                   uiState, localStorage, lsVars>>

\* One unit of time passes.
DeTick ==
    /\ deTimers' = {[t EXCEPT !.left = IF @ > 0 THEN @ - 1 ELSE 0] : t \in deTimers}
    /\ deAge' = IF deAge < DeMaxDelay THEN deAge + 1 ELSE deAge
    /\ UNCHANGED <<deValue, deDelay, debouncedValue, deChanges, deEmitted, bpVars, exVars,
                   hookVars, torn, boot, apiVars, uiState, localStorage, lsVars>>

\* A timer whose delay has passed fires: setDebouncedValue(value), with the
\* value of the render that set it.
DeFire(t) ==
    /\ t \in deTimers
    /\ t.left = 0
    /\ deTimers' = deTimers \ {t}
    /\ debouncedValue' = t.value
    /\ deEmitted' = Append(deEmitted, t.value)
    /\ UNCHANGED <<deValue, deDelay, deAge, deChanges, bpVars, exVars, hookVars, torn, boot,
                   apiVars, uiState, localStorage, lsVars>>

\* The first render, with value "a" and delay 1, and its effect.
InitDe ==
    /\ deValue = "a"
    /\ deDelay = 1
    /\ debouncedValue = "a"
    /\ deTimers = SetTimeout({}, "a", 1)
    /\ deAge = 0
    /\ deChanges = 0
    /\ deEmitted = <<>>

NextDe ==
    \/ \E value \in DeValues, delay \in Delays : DeChange(value, delay)
    \/ DeTick
    \/ \E t \in deTimers : DeFire(t)

\* The clock advances and a timer that is due fires.
DeProgress ==
    /\ WF_vars(DeTick)
    /\ WF_vars(\E t \in deTimers : DeFire(t))

\* ------------------------------------------------------------ specification
\* The state: the module-level cache, the hook instances, and the browser's
\* databases with the open calls and requests made on them.
TypeOK ==
    /\ window \in BOOLEAN
    /\ opts \in [Instances -> Options]
    /\ mounted \in [Instances -> BOOLEAN]
    /\ data \in [Instances -> Values \cup {Null, Undefined}]
    /\ isLoading \in [Instances -> BOOLEAN]
    /\ error \in [Instances -> ErrorInstances \cup {Null}]
    /\ \A i \in Instances : \A j \in DOMAIN ops[i] :
           /\ ops[i][j].kind \in {"load", "refresh", "save", "remove"}
           /\ ops[i][j].pc \in {"awaitDB", "awaitReq", "fulfilled", "rejected"}
           /\ ops[i][j].conn \in 0..Len(opens)
    /\ dbCache \in [CacheKeys -> 0..Len(opens)]
    /\ \A n \in 1..Len(opens) : opens[n].state \in {"pending", "open", "rejected"}
    /\ \A d \in DBNames : idb[d].version \in {0} \cup Versions /\ idb[d].stores \subseteq StoreNames
    /\ \A r \in 1..Len(reqs) : reqs[r].kind \in {"get", "put", "delete"}
    /\ torn \in [Instances -> BOOLEAN]
    /\ boot.reloaded \in BOOLEAN /\ boot.spent \in 0..MaxOps
    /\ authToken \in Tokens \cup {Null}
    /\ apiCall.pc \in {"idle", "fetching", "returned", "thrown"}
    /\ apiCall.response \in Responses \cup {NoResponse}
    /\ apiCall.data \in JsonValues \cup {NoData}
    /\ uiState.sidebarOpen \in BOOLEAN /\ uiState.sidebarCollapsed \in BOOLEAN
    /\ uiState.theme \in Themes
    /\ uiState.activeModal \in ModalIds \cup {Null}
    /\ uiState.modalData \in ModalDatas
    /\ uiState.isLoading \in BOOLEAN
    /\ uiState.loadingMessage \in (LoadingMessages \ {Undefined}) \cup {DefaultLoadingMessage}
    /\ DOMAIN localStorage \subseteq {UiKey, LsKey}
    /\ storedValue \in [LsHooks -> LsValues]
    /\ \A h \in LsHooks : \A n \in DOMAIN pending[h] :
           /\ pending[h][n].arg \in Updaters \cup {"value"}
           /\ pending[h][n].value \in LsValues
    /\ listening \in [LsHooks -> BOOLEAN]
    /\ viewport \in Widths
    /\ matches \in [BreakpointNames -> BOOLEAN]
    /\ mqMounted \in BOOLEAN
    /\ exData.call \in 0..ExMaxCalls
    /\ exLoading \in BOOLEAN
    /\ exError \in {Null, ListError}
    /\ lastParams \in Queries
    /\ deValue \in DeValues
    /\ deDelay \in Delays
    /\ debouncedValue \in DeValues
    /\ \A t \in deTimers : t.value \in DeValues /\ t.left \in 0..DeMaxDelay
    /\ deAge \in 0..DeMaxDelay
    /\ deChanges \in 0..DeMaxChanges
    /\ \A n \in DOMAIN deEmitted : deEmitted[n] \in DeValues
    /\ \A n \in DOMAIN exCalls :
           /\ exCalls[n].kind \in {"fetch", "refresh"}
           /\ exCalls[n].query \in Queries
           /\ exCalls[n].pc \in {"pending", "fulfilled", "failed"}

\* A database no page has opened yet.
NoDatabase ==
    [version |-> 0, stores |-> {},
     records |-> [s \in StoreNames |-> [k \in Keys |-> NoRecord]]]

\* Store names are interchangeable, so instance 1 is the 'memos' hook of the demo
\* page and instance 2 takes any options.  Effects do not run while rendering on
\* a server, but they do in a non-browser renderer, so Mount is not tied to window.
Init ==
    /\ window \in BOOLEAN
    /\ opts \in {o \in [Instances -> Options] : o[1].storeName = "memos"}
    /\ mounted = [i \in Instances |-> FALSE]
    /\ data = [i \in Instances |-> Null]
    /\ isLoading = [i \in Instances |-> TRUE]
    /\ error = [i \in Instances |-> Null]
    /\ ops = [i \in Instances |-> <<>>]
    /\ dbCache = [ck \in CacheKeys |-> 0]
    /\ opens = <<>>
    /\ idb = [d \in DBNames |-> NoDatabase]
    /\ reqs = <<>>
    /\ torn = [i \in Instances |-> FALSE]
    /\ boot = [reloaded |-> FALSE, spent |-> 0, idb |-> [d \in DBNames |-> NoDatabase]]
    /\ InitApi
    /\ InitUi
    /\ InitLs
    /\ InitBp
    /\ InitEx
    /\ InitDe

Next ==
    \/ \E i \in Instances : Mount(i)
    \/ \E i \in Instances : Refresh(i)
    \/ \E i \in Instances, v \in Values : Save(i, v)
    \/ \E i \in Instances : Remove(i)
    \/ \E n \in 1..Len(opens), ok \in BOOLEAN : OpenSettle(n, ok)
    \/ \E r \in 1..Len(reqs), ok \in BOOLEAN : ReqComplete(r, ok)

Spec == Init /\ [][Next]_vars

\* The other modules are followed one at a time, from the page as it is loaded
\* in a browser with the IndexedDB hooks of the demo page not yet mounted.
DemoOptions == [dbName |-> "demo-app", storeName |-> "memos", key |-> "current-memo",
                version |-> 1]

InitPage ==
    /\ Init
    /\ window
    /\ opts = [i \in Instances |-> DemoOptions]

SpecApi == InitPage /\ [][NextApi]_vars
SpecUi == InitPage /\ [][NextUi]_vars
SpecLs == InitPage /\ [][NextLs]_vars
SpecLsFaulty == InitPage /\ [][NextLsFaulty]_vars
SpecBp == InitPage /\ [][NextBp]_vars
SpecEx == InitPage /\ [][NextEx]_vars
SpecDe == InitPage /\ [][NextDe]_vars /\ DeProgress

\* ------------------------------------------------------------ page reload
\* The page is loaded again, each hook with the same database, store and key and
\* the same or a raised version: the module is evaluated anew (empty cache), the
\* components are new, the connections of the old page are closed and its
\* unfinished requests are dropped; the databases persist.
Reload(o) ==
    /\ window
    /\ ~boot.reloaded
    /\ \A i \in Instances :
           /\ o[i] = [opts[i] EXCEPT !.version = o[i].version]
           /\ o[i].version >= opts[i].version
    /\ opts' = o
    /\ mounted' = [i \in Instances |-> FALSE]
    /\ data' = [i \in Instances |-> Null]
    /\ isLoading' = [i \in Instances |-> TRUE]
    /\ error' = [i \in Instances |-> Null]
    /\ ops' = [i \in Instances |-> <<>>]
    /\ dbCache' = [ck \in CacheKeys |-> 0]
    /\ opens' = <<>>
    /\ reqs' = <<>>
    /\ torn' = [i \in Instances |-> FALSE]
    /\ boot' = [reloaded |-> TRUE, spent |-> OpsIssued, idb |-> idb]
    /\ UNCHANGED <<window, idb, apps>>

NextReload ==
    \/ Next
    \/ \E o \in [Instances -> Options] : Reload(o)

\* The reload is followed in a browser, for hooks bound to one record that
\* start at version 1 (the reload may raise the version of either).
InitReload ==
    /\ Init
    /\ window
    /\ \A i \in Instances : opts[i].storeName = "memos" /\ opts[i].version = 1

SpecReload == InitReload /\ [][NextReload]_vars

\* ------------------------------------------------------------ unmount
\* The component of instance i is unmounted while an operation of it is in
\* flight; the effect of the hook returns no cleanup, so the operation goes on.
Unmount(i) ==
    /\ mounted[i] /\ ~torn[i]
    /\ \E j \in DOMAIN ops[i] : ops[i][j].pc \in {"awaitDB", "awaitReq"}
    /\ torn' = [torn EXCEPT ![i] = TRUE]
    /\ UNCHANGED <<hookVars, boot, apps>>

NextUnmount ==
    \/ Next
    \/ \E i \in Instances : Unmount(i)

\* The page in a browser with the hooks bound to one record through one
\* connection, as two components showing the same memo are.
InitShared ==
    /\ Init
    /\ window
    /\ \A i \in Instances : opts[i].storeName = "memos" /\ opts[i].version = 1

SpecShared == InitShared /\ [][Next]_vars

SpecUnmount == InitShared /\ [][NextUnmount]_vars

\* The browser processes every open request it can process and completes every
\* request whose transaction can run: an open or a request that stays ready is
\* settled, with success or with an error.
Progress ==
    /\ WF_vars(\E n \in 1..Len(opens), ok \in BOOLEAN : OpenSettle(n, ok))
    /\ WF_vars(\E r \in 1..Len(reqs), ok \in BOOLEAN : ReqComplete(r, ok))

\* Progress is followed in a browser, for hooks bound to one record, at the
\* same version or at different ones.
InitLive ==
    /\ Init
    /\ window
    /\ \A i \in Instances : opts[i].storeName = "memos"

SpecLive == InitLive /\ [][Next]_vars /\ Progress

\* ------------------------------------------------------------ properties
InFlight(op) == op.pc \in {"awaitDB", "awaitReq"}

OpIds == {<<i, j>> : i \in Instances, j \in 1..MaxOps}
Issued(i, j) == j \in DOMAIN ops[i]

KeyOf(i) == CacheKey(opts[i].dbName, opts[i].version)

\* The underlying opens made for cache key ck.
OpensOf(ck) == {n \in 1..Len(opens) : CacheKey(opens[n].dbName, opens[n].version) = ck}

\* C1. Single-flight open: however many callers ask for one (databaseName,
\* version) pair, before or after its open has resolved, the underlying open
\* (and so its upgrade) is started at most once for the pair, and every caller
\* holds the promise of that one open.
C1_SingleFlight ==
    /\ \A ck \in CacheKeys : Cardinality(OpensOf(ck)) <= 1
    /\ \A i \in Instances : \A j \in DOMAIN ops[i] :
           ops[i][j].conn # 0 =>
               /\ ops[i][j].conn = dbCache[KeyOf(i)]
               /\ OpensOf(KeyOf(i)) = {ops[i][j].conn}

\* Two instances called getDB for one pair while its open was still pending.
C1_Witness ==
    \E n \in 1..Len(opens) :
        /\ opens[n].state = "pending"
        /\ \E i, k \in Instances :
               /\ i # k
               /\ \E j \in DOMAIN ops[i] : ops[i][j].conn = n /\ ops[i][j].pc = "awaitDB"
               /\ \E j \in DOMAIN ops[k] : ops[k][j].conn = n /\ ops[k][j].pc = "awaitDB"

\* The operation a step has just issued on instance i (its last one).
Called(i) == Len(ops'[i]) = Len(ops[i]) + 1
LastOp(i) == ops'[i][Len(ops'[i])]

\* C2. The cache holds one entry per (databaseName, version) pair (it is a map
\* on the pair); an entry is never removed or replaced; a call for a pair that
\* has an entry starts no open and is handed that entry's promise.
C2_CacheOnlyGrows ==
    [][ /\ \A ck \in CacheKeys : dbCache[ck] # 0 => dbCache'[ck] = dbCache[ck]
        /\ \A i \in Instances :
               (Called(i) /\ window /\ dbCache[KeyOf(i)] # 0) =>
                   /\ Len(opens') = Len(opens)
                   /\ LastOp(i).conn = dbCache[KeyOf(i)]
      ]_vars

\* A call was served from the entry of an open that had already failed: the
\* operation was rejected in the turn it was called, and one open was made.
C2_Witness ==
    \E i \in Instances :
        /\ Len(opens) = 1
        /\ opens[1].state = "rejected"
        /\ Len(ops[i]) >= 2
        /\ \A j \in DOMAIN ops[i] : ops[i][j].conn = 1 /\ ops[i][j].caught = OpenError

\* C3 (as claimed). Every operation that holds a resolved connection finds its
\* own storeName among the object stores of the database.
C3_PartitionExists ==
    \A i \in Instances : \A j \in DOMAIN ops[i] :
        (ops[i][j].conn # 0 /\ opens[ops[i][j].conn].state = "open") =>
            opts[i].storeName \in idb[opts[i].dbName].stores

\* The record of the key instance i is bound to, in databases db.
RecIn(db, i) == db[opts[i].dbName].records[opts[i].storeName][opts[i].key]

IsWrite(kind) == kind \in {"save", "remove"}
Succeeded(op) == op.pc = "fulfilled" /\ op.caught = Null /\ op.conn # 0

SameRecord(i, k) ==
    /\ opts[i].dbName = opts[k].dbName
    /\ opts[i].storeName = opts[k].storeName
    /\ opts[i].key = opts[k].key

\* No instance but i has issued a save or remove on the record of instance i.
NoOtherWriter(i) ==
    \A k \in Instances \ {i} :
        SameRecord(i, k) => \A m \in DOMAIN ops[k] : ~IsWrite(ops[k][m].kind)

\* Every save or remove instance i issued after its operation j was rejected.
NoWriteAfter(i, j) ==
    \A m \in DOMAIN ops[i] : (m > j /\ IsWrite(ops[i][m].kind)) => ops[i][m].pc = "rejected"

\* C4. Load-after-save: when a save of v by an instance has succeeded and a load
\* issued after it has succeeded, with no later write to the record, the load
\* has returned v: the instance's data is v and the record holds v.
C4_LoadAfterSave ==
    \A i \in Instances : \A j, k \in DOMAIN ops[i] :
        ( /\ j < k
          /\ ops[i][j].kind = "save" /\ Succeeded(ops[i][j])
          /\ IsFetch(ops[i][k].kind) /\ Succeeded(ops[i][k])
          /\ NoWriteAfter(i, j)
          /\ NoOtherWriter(i) ) =>
              /\ data[i] = ops[i][j].value
              /\ RecIn(idb, i) = ops[i][j].value

\* A second save replaced the value of a first one, and a refresh issued after
\* it has returned.
C4_Witness ==
    \E i \in Instances :
        /\ Len(ops[i]) = 4
        /\ ops[i][2].kind = "save" /\ Succeeded(ops[i][2]) /\ ops[i][2].value = "v1"
        /\ ops[i][3].kind = "save" /\ Succeeded(ops[i][3]) /\ ops[i][3].value = "v2"
        /\ ops[i][4].kind = "refresh" /\ Succeeded(ops[i][4])
        /\ data[i] = "v2"

\* C5 (as claimed). Delete clears: after a successful save and a successful
\* remove issued after it, a load issued after the remove that succeeds, with
\* no later write, leaves the instance's data null and the record absent.
C5_DeleteClears ==
    \A i \in Instances : \A j, k, l \in DOMAIN ops[i] :
        ( /\ j < k /\ k < l
          /\ ops[i][j].kind = "save" /\ Succeeded(ops[i][j])
          /\ ops[i][k].kind = "remove" /\ Succeeded(ops[i][k])
          /\ IsFetch(ops[i][l].kind) /\ Succeeded(ops[i][l])
          /\ NoWriteAfter(i, k)
          /\ NoOtherWriter(i) ) =>
              /\ data[i] = Null
              /\ RecIn(idb, i) = NoRecord

\* Operation j of instance i moves in this step (it is called, resumes after
\* getDB, or settles).
Moves(i, j) ==
    /\ j <= Len(ops'[i])
    /\ (j > Len(ops[i]) \/ ops[i][j].pc # ops'[i][j].pc)

\* C6. A save changes data only in the step in which its write has succeeded:
\* when it is called, when it resumes after getDB and when it fails (open or
\* write failure), data is what it was, so a save that throws leaves the data
\* it found.
C6_SaveFailureKeepsData ==
    [][ \A i \in Instances : \A j \in 1..MaxOps :
            ( /\ Moves(i, j)
              /\ ops'[i][j].kind = "save"
              /\ ops'[i][j].pc # "fulfilled" ) => data'[i] = data[i]
      ]_vars

\* A save of a value has thrown on a write failure while data holds another
\* saved value.
C6_Witness ==
    \E i \in Instances : \E j \in DOMAIN ops[i] :
        /\ ops[i][j].kind = "save"
        /\ ops[i][j].pc = "rejected"
        /\ ops[i][j].thrown = WriteError
        /\ data[i] \in Values
        /\ data[i] # ops[i][j].value

Fails(i, j) ==
    /\ j <= Len(ops'[i])
    /\ ops'[i][j].caught # Null
    /\ (j > Len(ops[i]) \/ ops[i][j].caught = Null)

C8_AllFailUnavailable ==
    ~window =>
        \A i \in Instances : \A j \in DOMAIN ops[i] :
            ops[i][j].pc = "rejected" /\ ops[i][j].thrown = UnavailableError

\* C8 (amended). Without a window save and remove fail with the unavailable
\* error, the mount load and refresh return without an error, data and error
\* keep their initial null, and no connection is opened or cached.
C8_Unavailable ==
    ~window =>
        /\ \A i \in Instances : \A j \in DOMAIN ops[i] :
               IF IsWrite(ops[i][j].kind)
               THEN ops[i][j].pc = "rejected" /\ ops[i][j].thrown = UnavailableError
               ELSE ops[i][j].pc = "fulfilled" /\ ops[i][j].caught = Null
        /\ \A i \in Instances : data[i] = Null /\ error[i] = Null
        /\ opens = <<>>
        /\ \A ck \in CacheKeys : dbCache[ck] = 0
        /\ reqs = <<>>

\* Without a window a save and a remove have thrown and a refresh has returned.
C8_Witness ==
    /\ ~window
    /\ \E i \in Instances : \E j, k, l \in DOMAIN ops[i] :
           /\ ops[i][j].kind = "save" /\ ops[i][j].pc = "rejected"
           /\ ops[i][k].kind = "remove" /\ ops[i][k].pc = "rejected"
           /\ ops[i][l].kind = "refresh" /\ ops[i][l].pc = "fulfilled"

\* No instance has issued a save or remove.
NoWrites == \A k \in Instances : \A m \in DOMAIN ops[k] : ~IsWrite(ops[k][m].kind)

\* C9 (as claimed). A load of a key that was never saved succeeds and leaves
\* data null and error null.
C9_AbsentLoadsNull ==
    \A i \in Instances : \A j \in DOMAIN ops[i] :
        ( /\ IsFetch(ops[i][j].kind)
          /\ Succeeded(ops[i][j])
          /\ NoWrites ) =>
              data[i] = Null /\ error[i] = Null

\* C10 (as claimed). isLoading is true only while an operation of the instance
\* is in flight.
C10_LoadingOnlyInFlight ==
    \A i \in Instances :
        isLoading[i] => \E j \in DOMAIN ops[i] : InFlight(ops[i][j])

\* C10 (amended). isLoading is true only while a load or refresh of the instance
\* is in flight, or before the mount load of the instance has started.
C10_LoadingOnlyFetching ==
    \A i \in Instances :
        isLoading[i] =>
            \/ ~mounted[i]
            \/ \E j \in DOMAIN ops[i] : IsFetch(ops[i][j].kind) /\ InFlight(ops[i][j])

\* A refresh is in flight, with isLoading true, after the mount load has ended
\* and a save has succeeded.
C10_Witness ==
    \E i \in Instances :
        /\ mounted[i]
        /\ isLoading[i]
        /\ Len(ops[i]) = 3
        /\ ops[i][1].pc = "fulfilled"
        /\ ops[i][2].kind = "save" /\ ops[i][2].pc = "fulfilled"
        /\ ops[i][3].kind = "refresh" /\ InFlight(ops[i][3])

\* C11. Whenever a load, refresh, save or remove is started on an instance, the
\* start clears error: after the turn of the call error is null, or it is the
\* error the new operation itself has already caught in that turn (its open had
\* failed before), never the error of an earlier operation.  And error is only
\* ever an error that an operation of the instance has caught.
C11_ErrorClearedAtStart ==
    [][ \A i \in Instances :
            /\ Called(i) => error'[i] \in {Null, LastOp(i).caught}
            /\ error'[i] # Null =>
                   \E j \in 1..MaxOps : j <= Len(ops'[i]) /\ ops'[i][j].caught = error'[i]
      ]_vars

\* The first operation of an instance has failed and a second one, started
\* later, has cleared the error.
C11_Witness ==
    \E i \in Instances :
        /\ Len(ops[i]) = 2
        /\ ops[i][1].caught # Null
        /\ ops[i][2].caught = Null
        /\ error[i] = Null

\* Operation j of instance i completes successfully in this step.
Completes(i, j) ==
    /\ j <= Len(ops[i])
    /\ ops[i][j].pc = "awaitReq"
    /\ ops'[i][j].pc = "fulfilled"
    /\ ops'[i][j].caught = Null

\* The result of operation j of instance i when it completes successfully now.
ResultOf(i, j) ==
    IF ops[i][j].kind = "save" THEN ops[i][j].value
    ELSE IF ops[i][j].kind = "remove" THEN Null
    ELSE GetResult(idb[opts[i].dbName], opts[i].storeName, opts[i].key)

\* C12 (as claimed). In every interleaving an operation that completes
\* successfully leaves data at its result and error null, and an operation that
\* fails leaves error set and data unchanged.
C12_Transitions ==
    [][ \A i \in Instances : \A j \in 1..MaxOps :
            /\ Completes(i, j) => data'[i] = ResultOf(i, j) /\ error'[i] = Null
            /\ Fails(i, j) => error'[i] = ops'[i][j].caught /\ data'[i] = data[i]
      ]_vars

\* C12 (amended). In every interleaving an operation that completes
\* successfully sets data to its result and leaves error as it was (null, unless
\* another operation of the instance has failed since this one started), and an
\* operation that fails sets error and leaves data unchanged.
C12_TransitionsKeepError ==
    [][ \A i \in Instances : \A j \in 1..MaxOps :
            /\ Completes(i, j) =>
                   /\ data'[i] = ResultOf(i, j)
                   /\ error'[i] = error[i]
                   /\ error[i] # Null =>
                          \E k \in DOMAIN ops[i] : k # j /\ ops[i][k].caught = error[i]
            /\ Fails(i, j) => error'[i] = ops'[i][j].caught /\ data'[i] = data[i]
      ]_vars

\* A save issued while the mount load was in flight has succeeded after the
\* load failed: data is the saved value and error is still the load's error.
C12_Witness ==
    \E i \in Instances :
        /\ Len(ops[i]) = 2
        /\ ops[i][1].caught = ReadError
        /\ ops[i][2].kind = "save" /\ Succeeded(ops[i][2])
        /\ data[i] = ops[i][2].value
        /\ error[i] = ReadError

\* C13 (as claimed). Version isolation: the two versions of a database have
\* distinct cache entries, and a value saved under version 1 is not returned by
\* a load through a version-2 connection.  (After a reload that found the
\* database at version 1, every record it holds was saved under version 1.)
C13_VersionIsolation ==
    /\ \A d \in DBNames :
           dbCache[CacheKey(d, 1)] # 0 => dbCache[CacheKey(d, 1)] # dbCache[CacheKey(d, 2)]
    /\ \A i \in Instances :
           ( /\ boot.reloaded
             /\ boot.idb[opts[i].dbName].version = 1
             /\ opts[i].version = 2
             /\ NoWrites ) => data[i] \notin Values

\* C13 (amended). The two versions of a database have distinct cache entries
\* and distinct opens, but they are versions of one database, not isolated
\* stores: every open connection is at the current version of the database, and
\* a load on a reloaded page that has written nothing returns the record the
\* earlier page left, whatever version the earlier page and the load use.
C13_VersionsShareRecords ==
    /\ \A d \in DBNames :
           dbCache[CacheKey(d, 1)] # 0 => dbCache[CacheKey(d, 1)] # dbCache[CacheKey(d, 2)]
    /\ \A n \in 1..Len(opens) :
           opens[n].state = "open" => opens[n].version = idb[opens[n].dbName].version
    /\ \A i \in Instances : \A j \in DOMAIN ops[i] :
           ( /\ boot.reloaded
             /\ NoWrites
             /\ IsFetch(ops[i][j].kind) /\ Succeeded(ops[i][j]) ) =>
                 data[i] = GetResult(boot.idb[opts[i].dbName], opts[i].storeName,
                                     opts[i].key)

\* A page at version 1 saved a value; after the reload a hook at version 2 has
\* loaded it.
C13_Witness ==
    \E i \in Instances : \E j \in DOMAIN ops[i] :
        /\ boot.reloaded
        /\ boot.idb[opts[i].dbName].version = 1
        /\ opts[i].version = 2
        /\ idb[opts[i].dbName].version = 2
        /\ NoWrites
        /\ IsFetch(ops[i][j].kind) /\ Succeeded(ops[i][j])
        /\ data[i] \in Values

\* Another instance bound to the record of instance i has written it.
WrittenByOther(i) ==
    \E k \in Instances \ {i} :
        /\ SameRecord(i, k)
        /\ \E m \in DOMAIN ops[k] : IsWrite(ops[k][m].kind) /\ Succeeded(ops[k][m])

\* C14 (as claimed). When another instance has changed the record, a refresh
\* that completes successfully leaves data equal to the record of the store, and
\* null when the record is absent.
C14_RefreshReconciles ==
    [][ \A i \in Instances : \A j \in 1..MaxOps :
            ( /\ Completes(i, j)
              /\ ops[i][j].kind = "refresh"
              /\ WrittenByOther(i) ) =>
                  data'[i] = IF RecIn(idb, i) = NoRecord THEN Null ELSE RecIn(idb, i)
      ]_vars

\* The LoadState of instance k is the same after this step.
LoadStateUnchanged(k) ==
    /\ data'[k] = data[k]
    /\ isLoading'[k] = isLoading[k]
    /\ error'[k] = error[k]

\* C15. A save or remove of one instance that completes changes the record of
\* the store and leaves the LoadState of every other instance bound to the same
\* record as it was; in general the LoadState of an instance changes only in a
\* step in which an operation of that instance itself moves.
C15_OthersUnchanged ==
    [][ \A k \in Instances :
            /\ \A i \in Instances \ {k} : \A j \in 1..MaxOps :
                   ( /\ Completes(i, j)
                     /\ IsWrite(ops[i][j].kind)
                     /\ SameRecord(i, k) ) =>
                         /\ LoadStateUnchanged(k)
                         /\ RecIn(idb', k) = IF ops[i][j].kind = "save"
                                             THEN ops[i][j].value ELSE NoRecord
            /\ (\A j \in 1..MaxOps : ~Moves(k, j)) => LoadStateUnchanged(k)
      ]_vars

\* An instance has loaded a value; another instance has then saved another
\* value to the same record, and the first still shows the value it loaded.
C15_Witness ==
    \E i, k \in Instances :
        /\ i # k /\ SameRecord(i, k)
        /\ \A m \in DOMAIN ops[k] : IsFetch(ops[k][m].kind) /\ Succeeded(ops[k][m])
        /\ \E j \in DOMAIN ops[i] : ops[i][j].kind = "save" /\ Succeeded(ops[i][j])
        /\ data[k] \in Values
        /\ RecIn(idb, k) \in Values
        /\ RecIn(idb, k) # data[k]

\* A save of instance k other than i, to the record of i and through the same
\* connection, is in flight.
SaveInFlightBeside(i, k, m) ==
    /\ k # i
    /\ SameRecord(i, k) /\ KeyOf(i) = KeyOf(k)
    /\ m <= Len(ops[k])
    /\ ops[k][m].kind = "save" /\ InFlight(ops[k][m])

\* C16. Last write wins, without merging.  A save that completes leaves the
\* record at exactly its value, also while a save of another instance to the
\* same record is in flight, and leaves that other save as it was; the record
\* changes in no other step than the completion of a save or remove to it; and a
\* save is rejected only for a failure of the environment (no storage, a failed
\* open, a failed write), never because of the other save.
C16_LastWriteWins ==
    [][ \A i \in Instances : \A j \in 1..MaxOps :
            /\ (Completes(i, j) /\ ops[i][j].kind = "save") =>
                   /\ RecIn(idb', i) = ops[i][j].value
                   /\ data'[i] = ops[i][j].value
                   /\ \A k \in Instances : \A m \in 1..MaxOps :
                          SaveInFlightBeside(i, k, m) => ops'[k][m] = ops[k][m]
            /\ RecIn(idb', i) # RecIn(idb, i) =>
                   \E k \in Instances : \E m \in 1..MaxOps :
                       /\ SameRecord(i, k)
                       /\ Completes(k, m) /\ IsWrite(ops[k][m].kind)
            /\ ( /\ Moves(i, j)
                 /\ ops'[i][j].kind = "save"
                 /\ ops'[i][j].pc = "rejected"
                 /\ \E k \in Instances \ {i} : SameRecord(i, k) /\ KeyOf(i) = KeyOf(k) ) =>
                     ops'[i][j].thrown \in {UnavailableError, OpenError, WriteError}
      ]_vars

\* Two instances have saved different values to one record through one
\* connection; both saves have succeeded, each instance shows its own value and
\* the record holds one of the two.
C16_Witness ==
    \E i, k \in Instances : \E j \in DOMAIN ops[i] : \E m \in DOMAIN ops[k] :
        /\ i # k /\ SameRecord(i, k) /\ KeyOf(i) = KeyOf(k)
        /\ ops[i][j].kind = "save" /\ Succeeded(ops[i][j])
        /\ ops[k][m].kind = "save" /\ Succeeded(ops[k][m])
        /\ ops[i][j].value # ops[k][m].value
        /\ data[i] = ops[i][j].value
        /\ data[k] = ops[k][m].value
        /\ RecIn(idb, i) = ops[k][m].value

SettledNotOk ==
    /\ apiCall.pc \in {"returned", "thrown"}
    /\ apiCall.response # NoResponse
    /\ ~Ok(apiCall.response)

\* The statuses with a fixed message.
FixedStatuses == {401, 403, 404, 500}

FixedMessage(status) ==
    IF status = 401 THEN Message401
    ELSE IF status = 403 THEN Message403
    ELSE IF status = 404 THEN Message404
    ELSE Message500

C19_PersistsThemeAndCollapse ==
    [][ /\ UiKey \in DOMAIN localStorage' =>
               /\ DOMAIN localStorage'[UiKey].state = {"theme", "sidebarCollapsed"}
               /\ localStorage'[UiKey].state.theme = uiState'.theme
               /\ localStorage'[UiKey].state.sidebarCollapsed = uiState'.sidebarCollapsed
        /\ uiState' # uiState => UiKey \in DOMAIN localStorage'
        /\ (\E writeBack \in BOOLEAN : UiRestart(writeBack)) =>
               /\ uiState'.theme = uiState.theme
               /\ uiState'.sidebarCollapsed = uiState.sidebarCollapsed
               /\ \A f \in {"sidebarOpen", "activeModal", "modalData", "isLoading",
                            "loadingMessage"} : uiState'[f] = initialState[f]
      ]_vars

\* After a restart the store shows the dark theme and the collapsed sidebar that
\* were persisted, and every other field at its initial value.
C19_Witness ==
    /\ boot.reloaded
    /\ UiKey \in DOMAIN localStorage
    /\ uiState = [initialState EXCEPT !.theme = "dark", !.sidebarCollapsed = TRUE]

\* What React's setState leaves after the updaters of queue q, applied in order
\* to x, each to the result of the one before.
RECURSIVE Composed(_, _)
Composed(q, x) == IF q = <<>> THEN x ELSE Composed(Tail(q), Apply(Head(q).arg, x))

\* C20 (as claimed). When the updates issued on an instance since its last
\* render are all functional updates setValue(f1), ..., setValue(fn), and no
\* other instance is mounted, the value set and the item stored are
\* fn(...f1(prev)), prev being the value of that render.
C20_FunctionalUpdatesCompose ==
    \A h \in LsHooks :
        ( /\ pending[h] # <<>>
          /\ \A n \in DOMAIN pending[h] : pending[h][n].arg \in Updaters
          /\ \A k \in LsHooks \ {h} : ~listening[k] ) =>
              /\ pending[h][Len(pending[h])].value = Composed(pending[h], storedValue[h])
              /\ LsKey \in DOMAIN localStorage
              /\ localStorage[LsKey] = Stringify(Composed(pending[h], storedValue[h]))

\* Every media query state is the result of its query at the current width.
BpSettled == mqMounted /\ \A b \in BreakpointNames : matches[b] = MatchMedia(b, viewport)

\* C21 (as claimed). Once the media query states have settled, isMobile is true
\* exactly below 640px, isTablet exactly from 768px to below 1024px and
\* isDesktop exactly from 1024px.
C21_BreakpointsAsDocumented ==
    BpSettled =>
        /\ isMobile <=> viewport < 640
        /\ isTablet <=> (viewport >= 768 /\ viewport < 1024)
        /\ isDesktop <=> viewport >= 1024

\* The fetch calls among the first n calls of the hook.
FetchCalls(n) == {m \in 1..n : exCalls[m].kind = "fetch"}

\* The greatest element of a non-empty set of numbers.
Latest(S) == CHOOSE m \in S : \A k \in S : k <= m

\* C22 (as claimed). A refresh issues the query of the most recent fetch call
\* made on the hook, whether or not that fetch succeeded.
C22_RefreshUsesLastFetch ==
    \A n \in DOMAIN exCalls :
        (exCalls[n].kind = "refresh" /\ FetchCalls(n) # {}) =>
            exCalls[n].query = exCalls[Latest(FetchCalls(n))].query

\* C26 (as claimed). When every call made on the hook has completed
\* successfully, data is the list that answered the call issued last, and
\* isLoading is true as long as a call is in flight.
C26_LatestResponseWins ==
    /\ (exCalls # <<>> /\ \A n \in DOMAIN exCalls : exCalls[n].pc = "fulfilled") =>
           exData.call = Len(exCalls)
    /\ (\E n \in DOMAIN exCalls : exCalls[n].pc = "pending") => exLoading

\* Instance i is the only instance that has issued an operation.
OnlyInstance(i) == \A k \in Instances \ {i} : ops[k] = <<>>

\* C23 (as claimed). With a single instance, once every operation it issued has
\* completed successfully its data equals the record of the store (null when
\* the record is absent), and a load started before a save does not leave data
\* at an older value once both have completed.
C23_ConvergesToStore ==
    \A i \in Instances :
        OnlyInstance(i) =>
            /\ (ops[i] # <<>> /\ \A j \in DOMAIN ops[i] : Succeeded(ops[i][j])) =>
                   data[i] = IF RecIn(idb, i) = NoRecord THEN Null ELSE RecIn(idb, i)
            /\ \A j, k \in DOMAIN ops[i] :
                   ( /\ j < k
                     /\ IsFetch(ops[i][j].kind) /\ Succeeded(ops[i][j])
                     /\ ops[i][k].kind = "save" /\ Succeeded(ops[i][k])
                     /\ \A m \in DOMAIN ops[i] : m > k => ~IsWrite(ops[i][m].kind) ) =>
                         data[i] = ops[i][k].value

\* The cache entry of instance i's pair holds an open that has failed.
OpenFailed(i) ==
    /\ window
    /\ dbCache[KeyOf(i)] # 0
    /\ opens[dbCache[KeyOf(i)]].state = "rejected"

\* C24. A failed open is cached: the entry of a pair whose open was rejected
\* stays in the cache as it is, and every load, save or remove called for the
\* pair afterwards starts no open and fails in the turn it is called with the
\* error the open failed with (a load records it, a save or remove records and
\* rejects with it).
C24_FailedOpenCached ==
    [][ \A i \in Instances :
            OpenFailed(i) =>
                LET n == dbCache[KeyOf(i)] IN
                /\ dbCache'[KeyOf(i)] = n
                /\ opens'[n] = opens[n]
                /\ Called(i) =>
                       /\ Len(opens') = Len(opens)
                       /\ LastOp(i).conn = n
                       /\ LastOp(i).caught = opens[n].err
                       /\ error'[i] = opens[n].err
                       /\ IF IsFetch(LastOp(i).kind)
                          THEN LastOp(i).pc = "fulfilled" /\ ~isLoading'[i]
                          ELSE LastOp(i).pc = "rejected" /\ LastOp(i).thrown = opens[n].err
      ]_vars

\* After the open of its pair failed, an instance has called a refresh, a save
\* and a remove, and one open was ever made.
C24_Witness ==
    \E i \in Instances :
        /\ OpenFailed(i)
        /\ Len(opens) = 1
        /\ Len(ops[i]) = 4
        /\ ops[i][2].kind = "refresh" /\ ops[i][2].caught = opens[1].err
        /\ ops[i][3].kind = "save" /\ ops[i][3].thrown = opens[1].err
        /\ ops[i][4].kind = "remove" /\ ops[i][4].thrown = opens[1].err

\* A load or refresh of instance i has been issued / is in flight.
FetchIssued(i) == \E j \in DOMAIN ops[i] : IsFetch(ops[i][j].kind)
FetchInFlight(i) == \E j \in DOMAIN ops[i] : IsFetch(ops[i][j].kind) /\ InFlight(ops[i][j])

\* C25 (as claimed). Every load or refresh that is started eventually ends;
\* once the loads of an instance have ended its isLoading is false; and a step
\* in which only saves and removes move leaves isLoading as it was.
C25_LoadingTerminates ==
    /\ \A i \in Instances : \A j \in 1..MaxOps :
           (Issued(i, j) /\ IsFetch(ops[i][j].kind) /\ InFlight(ops[i][j]))
               ~> (Issued(i, j) /\ ~InFlight(ops[i][j]))
    /\ [](\A i \in Instances : (FetchIssued(i) /\ ~FetchInFlight(i)) => ~isLoading[i])
    /\ [][ (\A i \in Instances : \A j \in 1..MaxOps :
                Moves(i, j) => IsWrite(ops'[i][j].kind)) => isLoading' = isLoading ]_vars

\* What the storage holds for the key, as a value: the parsed item, and the
\* initial value when there is no item.
Held == IF LsKey \in DOMAIN localStorage THEN Parse(localStorage[LsKey]) ELSE LsInitialValue

\* C27 (as claimed). After any sequence of setValue and removeValue calls on
\* instances sharing the key, once every instance has rendered, the value of
\* every mounted instance is the parsed item, or the initial value when there
\* is no item.
C27_InstancesAgree ==
    (\A h \in LsHooks : pending[h] = <<>>) =>
        \A h \in LsHooks : listening[h] => storedValue[h] = Held

\* The value the last setStoredValue call of a step has set on instance h.
LastSet(h) == pending'[h][Len(pending'[h])].value

\* C28 (as claimed). Reading yields the initial value when there is no window,
\* no item, or an item that is not JSON; and when the storage write of a
\* setValue or removeValue call fails, the call ends normally with the value in
\* memory equal to what the storage holds.
C28_SafeFallback ==
    [][ /\ ( \/ ~window
             \/ LsKey \notin DOMAIN localStorage
             \/ ~IsJson(localStorage[LsKey]) ) => ReadValue = LsInitialValue
        /\ \A h \in LsHooks :
               ( \/ \E value \in LsValues : LsSetValueFails(h, value)
                 \/ \E f \in Updaters : LsSetValueWithFails(h, f)
                 \/ LsRemoveValueFails(h) ) => LastSet(h) = ReadValue'
      ]_vars

Paired(state) ==
    /\ state.activeModal = Null => state.modalData = {}
    /\ ~state.isLoading => state.loadingMessage = ""

\* A step changes no field of the store outside fields.
OnlyFields(fields) == \A f \in DOMAIN initialState \ fields : uiState'[f] = uiState[f]

\* C30. In every state reachable by the store's actions, reset and rehydration
\* included, activeModal = null implies that modalData is empty and
\* isLoading = false implies that loadingMessage is the empty string; and each
\* action changes only its own fields: the sidebar actions sidebarOpen,
\* toggleSidebarCollapse sidebarCollapsed, the theme actions theme, the modal
\* actions activeModal and modalData, the loading actions isLoading and
\* loadingMessage.
C30_PairedFields ==
    /\ [](Paired(uiState))
    /\ [][ /\ (openSidebar \/ closeSidebar \/ toggleSidebar) => OnlyFields({"sidebarOpen"})
           /\ toggleSidebarCollapse => OnlyFields({"sidebarCollapsed"})
           /\ ( \/ \E theme \in Themes : setTheme(theme)
                \/ \E isDark \in BOOLEAN : toggleTheme(isDark) ) => OnlyFields({"theme"})
           /\ ( \/ \E modalId \in ModalIds, modalData \in ModalDatas :
                       openModal(modalId, modalData)
                \/ closeModal ) => OnlyFields({"activeModal", "modalData"})
           /\ ( \/ \E message \in LoadingMessages : startLoading(message)
                \/ stopLoading ) => OnlyFields({"isLoading", "loadingMessage"})
         ]_vars

\* After a rehydration a modal was opened with data and closed, and a loading
\* with a message was started: the modal fields are cleared, the loading fields
\* set, and the sidebar and theme fields are as the rehydration left them.
C30_Witness ==
    /\ boot.reloaded
    /\ uiState = [initialState EXCEPT !.theme = "light", !.sidebarCollapsed = TRUE,
                                      !.isLoading = TRUE,
                                      !.loadingMessage = "custom-message"]

====
